---------------------------- MODULE Spec2Model ----------------------------
(***************************************************************************)
(* A model of the geometry algebra that the notebook                       *)
(* jupyter-notebooks/object-algebra.ipynb documents and exercises: Point,  *)
(* Rect, IRect, Quad and Matrix objects of PyMuPDF (fitz >= 1.19.6) and    *)
(* their unary and binary operators, driven by a notebook session that     *)
(* holds one left operand and applies one operator expression per step.    *)
(*                                                                         *)
(* Numbers.  The components of the objects are floats; they are modelled   *)
(* as exact rationals <<n, d>> in lowest terms with d > 0, so rounding     *)
(* errors of the floating point unit are not part of the model.            *)
(*                                                                         *)
(* Objects.  An object is a value [kind, cls, v, flag, err]: kind "obj"    *)
(* is a geometry object of class cls with components v, kind "seq" a raw   *)
(* Python sequence, kind "num" a number, kind "bool" a truth value (flag)  *)
(* and kind "error" a raised exception (err).  A Quad is kept as its eight *)
(* coordinates ul.x, ul.y, ur.x, ur.y, ll.x, ll.y, lr.x, lr.y.             *)
(***************************************************************************)
EXTENDS Integers, Sequences, FiniteSets, TLC

VARIABLES a, args, op, res, folded, heap, env, doc

vars == <<a, args, op, res, folded, heap, env, doc>>

\* the instances and names of the aliasing session and the journalled
\* document; the expression session and the fold do not use them
rest == <<heap, env, doc>>

-----------------------------------------------------------------------------
(* Bounds of the model.                                                    *)

\* coordinates of the sampled points lie in -MaxC .. MaxC
MaxC == 1
\* x coordinates of the sampled rectangles lie in 0 .. MaxX, y in 0 .. MaxY
MaxX == 3
MaxY == 1
\* the linear part a, b, c, d of the sampled matrices lies in -MaxM .. MaxM
MaxM == 1
\* a session with names creates at most MaxObj instances
MaxObj == 4
\* journalling session: pages of a document, text lines of a page, operations
MaxPages == 1
MaxLines == 2
MaxOps == 2
\* hidden-text detector: drawings of the page, characters of the span
MaxDraw == 2
MaxChars == 2

-----------------------------------------------------------------------------
(* Exact rational arithmetic.                                              *)

Abs(n) == IF n < 0 THEN -n ELSE n

RECURSIVE GCD(_, _)
GCD(m, n) == IF n = 0 THEN m ELSE GCD(n, m % n)

RNorm(n, d) ==
    LET s == IF d < 0 THEN -1 ELSE 1
        g == GCD(Abs(n), Abs(d))
    IN  <<(s * n) \div g, (s * d) \div g>>

R(k) == <<k, 1>>

RAdd(x, y) == IF x[2] = 1 /\ y[2] = 1 THEN <<x[1] + y[1], 1>>
              ELSE RNorm(x[1] * y[2] + y[1] * x[2], x[2] * y[2])
RNeg(x)    == <<-x[1], x[2]>>
RSub(x, y) == RAdd(x, RNeg(y))
RMul(x, y) == IF x[2] = 1 /\ y[2] = 1 THEN <<x[1] * y[1], 1>>
              ELSE RNorm(x[1] * y[1], x[2] * y[2])
RInv(x)    == RNorm(x[2], x[1])
RLt(x, y)  == x[1] * y[2] < y[1] * x[2]
RLe(x, y)  == x[1] * y[2] <= y[1] * x[2]
RMin(x, y) == IF RLt(y, x) THEN y ELSE x
RMax(x, y) == IF RLt(x, y) THEN y ELSE x
RFloor(x)  == x[1] \div x[2]
RCeil(x)   == -((-x[1]) \div x[2])

Zero == R(0)
One  == R(1)

-----------------------------------------------------------------------------
(* Values of the session.                                                  *)

Classes == {"Point", "Rect", "IRect", "Quad", "Matrix"}

Arity(cls) ==
    CASE cls = "Point"  -> 2
      [] cls = "Rect"   -> 4
      [] cls = "IRect"  -> 4
      [] cls = "Quad"   -> 8
      [] cls = "Matrix" -> 6

Val(kind, cls, v, flag, err) ==
    [kind |-> kind, cls |-> cls, v |-> v, flag |-> flag, err |-> err]

Obj(cls, v) == Val("obj", cls, v, FALSE, "none")
SeqV(v)     == Val("seq", "seq", v, FALSE, "none")
Num(r)      == Val("num", "num", <<r>>, FALSE, "none")
BoolV(f)    == Val("bool", "bool", <<>>, f, "none")
Raise(e)    == Val("error", "error", <<>>, FALSE, e)
None        == Val("none", "none", <<>>, FALSE, "none")

IsNum(x)  == x.kind = "num"
\* hasattr(x, "__len__"): geometry objects and raw sequences
HasLen(x) == x.kind \in {"obj", "seq"}

Ints(t) == [i \in 1..Len(t) |-> R(t[i])]

-----------------------------------------------------------------------------
(* Unary operators.                                                        *)

\* bool(O): False exactly if all components are zero
BoolFirstOnly(O) == O.v[1] # Zero
Bool(O) == \E i \in 1..Len(O.v) : O.v[i] # Zero

-----------------------------------------------------------------------------
(* Matrices: the row-major 3 x 3 structure                                 *)
(*     / a b 0 \                                                           *)
(*     | c d 0 |                                                           *)
(*     \ e f 1 /                                                           *)
(* acting on row vectors (x, y, 1).                                        *)

Identity   == Ints(<<1, 0, 0, 1, 0, 0>>)
ZeroMatrix == Ints(<<0, 0, 0, 0, 0, 0>>)

\* a * d - b * c
Det(m) == RSub(RMul(m[1], m[4]), RMul(m[2], m[3]))

\* Matrix.concat(m1, m2): the matrix product m1 * m2
ConcatSwapped(m1, m2) ==
    << RAdd(RMul(m2[1], m1[1]), RMul(m2[2], m1[3])),
       RAdd(RMul(m2[1], m1[2]), RMul(m2[2], m1[4])),
       RAdd(RMul(m2[3], m1[1]), RMul(m2[4], m1[3])),
       RAdd(RMul(m2[3], m1[2]), RMul(m2[4], m1[4])),
       RAdd(RAdd(RMul(m2[5], m1[1]), RMul(m2[6], m1[3])), m1[5]),
       RAdd(RAdd(RMul(m2[5], m1[2]), RMul(m2[6], m1[4])), m1[6]) >>
ConcatNoShift(m1, m2) ==
    << RAdd(RMul(m1[1], m2[1]), RMul(m1[2], m2[3])),
       RAdd(RMul(m1[1], m2[2]), RMul(m1[2], m2[4])),
       RAdd(RMul(m1[3], m2[1]), RMul(m1[4], m2[3])),
       RAdd(RMul(m1[3], m2[2]), RMul(m1[4], m2[4])),
       RAdd(RMul(m1[5], m2[1]), RMul(m1[6], m2[3])),
       RAdd(RMul(m1[5], m2[2]), RMul(m1[6], m2[4])) >>
Concat(m1, m2) ==
    << RAdd(RMul(m1[1], m2[1]), RMul(m1[2], m2[3])),
       RAdd(RMul(m1[1], m2[2]), RMul(m1[2], m2[4])),
       RAdd(RMul(m1[3], m2[1]), RMul(m1[4], m2[3])),
       RAdd(RMul(m1[3], m2[2]), RMul(m1[4], m2[4])),
       RAdd(RAdd(RMul(m1[5], m2[1]), RMul(m1[6], m2[3])), m2[5]),
       RAdd(RAdd(RMul(m1[5], m2[2]), RMul(m1[6], m2[4])), m2[6]) >>

\* the image of the point (x, y) under m
TransformXY(x, y, m) ==
    << RAdd(RAdd(RMul(x, m[1]), RMul(y, m[3])), m[5]),
       RAdd(RAdd(RMul(x, m[2]), RMul(y, m[4])), m[6]) >>

\* "the number or matrix-like must be invertible"
Invertible(m) == Det(m) # Zero

\* the algebraic inverse of an invertible m
Inverse(m) ==
    LET rdet == RInv(Det(m))
        ia == RMul(m[4], rdet)
        ib == RMul(RNeg(m[2]), rdet)
        ic == RMul(RNeg(m[3]), rdet)
        id == RMul(m[1], rdet)
    IN  << ia, ib, ic, id,
           RSub(RMul(RNeg(m[5]), ia), RMul(m[6], ic)),
           RSub(RMul(RNeg(m[5]), ib), RMul(m[6], id)) >>

\* ~m: the inverse of m; if not invertible, the matrix with all zeroes
InvertRaising(m) ==
    IF Invertible(m.v) THEN Obj("Matrix", Inverse(m.v))
    ELSE Raise("ZeroDivisionError")
Invert(m) ==
    IF Invertible(m.v) THEN Obj("Matrix", Inverse(m.v))
    ELSE Obj("Matrix", ZeroMatrix)

-----------------------------------------------------------------------------
(* Rectangles: (x0, y0, x1, y1), top-left and bottom-right corner.         *)

\* the coordinates of fitz.INFINITE_RECT() and, swapped, fitz.EMPTY_RECT()
FZ_MIN_INF_RECT == -2147483647 - 1
FZ_MAX_INF_RECT == 2147483520

EMPTY_RECT ==
    Obj("Rect", Ints(<<FZ_MAX_INF_RECT, FZ_MAX_INF_RECT,
                       FZ_MIN_INF_RECT, FZ_MIN_INF_RECT>>))
INFINITE_RECT ==
    Obj("Rect", Ints(<<FZ_MIN_INF_RECT, FZ_MIN_INF_RECT,
                       FZ_MAX_INF_RECT, FZ_MAX_INF_RECT>>))

\* Rect.is_valid, Rect.is_empty, Rect.is_infinite
IsValid(r)    == RLe(r[1], r[3]) /\ RLe(r[2], r[4])
IsEmpty(r)    == RLe(r[3], r[1]) \/ RLe(r[4], r[2])
IsInfinite(r) == r = INFINITE_RECT.v

\* Rect.round(): the smallest IRect covering the rectangle, with a
\* tolerance of 0.001
Round(r) ==
    LET eps == RNorm(1, 1000)
        \* floor(x + 0.001) and ceil(x - 0.001); both are x for an integer x
        lo(x) == IF x[2] = 1 THEN x ELSE R(RFloor(RAdd(x, eps)))
        hi(x) == IF x[2] = 1 THEN x ELSE R(RCeil(RSub(x, eps)))
    IN  << lo(r[1]), lo(r[2]), hi(r[3]), hi(r[4]) >>

\* a new object of class cls; an IRect is the rounded Rect
New(cls, v) == IF cls = "IRect" THEN Obj(cls, Round(v)) ELSE Obj(cls, v)

Min4(p, q, r, s) == RMin(RMin(p, q), RMin(r, s))
Max4(p, q, r, s) == RMax(RMax(p, q), RMax(r, s))

\* Rect.transform(m): the four corners are mapped by m and the result is
\* the rectangle spanned by their smallest and largest coordinates
TransformRectNoSort(r, m) ==
    LET s == TransformXY(r[1], r[2], m)
        u == TransformXY(r[3], r[4], m)
    IN  << s[1], s[2], u[1], u[2] >>
TransformRect(r, m) ==
    IF IsInfinite(r) THEN r
    ELSE LET s == TransformXY(r[1], r[2], m)
             t == TransformXY(r[1], r[4], m)
             u == TransformXY(r[3], r[4], m)
             w == TransformXY(r[3], r[2], m)
         IN  << Min4(s[1], t[1], u[1], w[1]), Min4(s[2], t[2], u[2], w[2]),
                Max4(s[1], t[1], u[1], w[1]), Max4(s[2], t[2], u[2], w[2]) >>

\* OBJ.transform(m) for the components v of an object of class cls
Transform(cls, v, m) ==
    CASE cls = "Point"  -> TransformXY(v[1], v[2], m)
      [] cls = "Rect"   -> TransformRect(v, m)
      [] cls = "IRect"  -> TransformRect(v, m)
      [] cls = "Quad"   -> TransformXY(v[1], v[2], m) \o TransformXY(v[3], v[4], m)
                           \o TransformXY(v[5], v[6], m) \o TransformXY(v[7], v[8], m)
      [] cls = "Matrix" -> Concat(v, m)

\* Rect.include_point(p)
IncludePoint(r, p) ==
    IF IsInfinite(r) THEN r
    ELSE << RMin(r[1], p[1]), RMin(r[2], p[2]),
            RMax(r[3], p[1]), RMax(r[4], p[2]) >>

\* Rect.include_rect(r2)
IncludeRectMaxX0(r, r2) ==
    << RMax(r[1], r2[1]), RMin(r[2], r2[2]),
       RMax(r[3], r2[3]), RMax(r[4], r2[4]) >>
IncludeRect(r, r2) ==
    IF IsInfinite(r2) \/ IsInfinite(r) THEN INFINITE_RECT.v
    ELSE IF IsEmpty(r2) THEN r
    ELSE IF IsEmpty(r) THEN r2
    ELSE << RMin(r[1], r2[1]), RMin(r[2], r2[2]),
            RMax(r[3], r2[3]), RMax(r[4], r2[4]) >>

\* Rect.intersect(r2)
IntersectMinX0(r, r2) ==
    << RMin(r[1], r2[1]), RMax(r[2], r2[2]),
       RMin(r[3], r2[3]), RMin(r[4], r2[4]) >>
Intersect(r, r2) ==
    IF IsInfinite(r2) THEN r
    ELSE IF IsInfinite(r) THEN r2
    ELSE IF IsEmpty(r2) THEN r2
    ELSE IF IsEmpty(r) THEN r
    ELSE << RMax(r[1], r2[1]), RMax(r[2], r2[2]),
            RMin(r[3], r2[3]), RMin(r[4], r2[4]) >>

-----------------------------------------------------------------------------
(* Binary operators.  The first operand A is a geometry object and         *)
(* determines the class of the result; B is an object, a raw sequence or   *)
(* a number.                                                               *)

Broadcast(A, B, F(_, _)) ==
    [i \in 1..Len(A.v) |-> F(A.v[i], IF IsNum(B) THEN B.v[1] ELSE B.v[i])]

\* A + B: component-wise; a number is added to every component
AddNoBroadcast(A, B) ==
    IF IsNum(B) THEN New(A.cls, [A.v EXCEPT ![1] = RAdd(@, B.v[1])])
    ELSE IF Len(B.v) # Arity(A.cls) THEN Raise("ValueError")
    ELSE New(A.cls, Broadcast(A, B, RAdd))
AddNormalizing(A, B) ==
    IF ~IsNum(B) /\ Len(B.v) # Arity(A.cls) THEN Raise("ValueError")
    ELSE IF A.cls \in {"Rect", "IRect"} THEN
        LET v == Broadcast(A, B, RAdd)
        IN  New(A.cls, << RMin(v[1], v[3]), RMin(v[2], v[4]),
                          RMax(v[1], v[3]), RMax(v[2], v[4]) >>)
    ELSE New(A.cls, Broadcast(A, B, RAdd))
Add(A, B) ==
    IF ~IsNum(B) /\ Len(B.v) # Arity(A.cls) THEN Raise("ValueError")
    ELSE New(A.cls, Broadcast(A, B, RAdd))

\* A - B
SubAsAdd(A, B) ==
    IF ~IsNum(B) /\ Len(B.v) # Arity(A.cls) THEN Raise("ValueError")
    ELSE New(A.cls, Broadcast(A, B, RAdd))
Sub(A, B) ==
    IF ~IsNum(B) /\ Len(B.v) # Arity(A.cls) THEN Raise("ValueError")
    ELSE New(A.cls, Broadcast(A, B, RSub))

\* A.__eq__(B): B must have a length, the right one, and bool(A - B) is False
EqFirstOnly(A, B) ==
    HasLen(B) /\ Len(B.v) = Arity(A.cls) /\ ~BoolFirstOnly(Sub(A, B))
Eq(A, B) ==
    HasLen(B) /\ Len(B.v) = Arity(A.cls) /\ ~Bool(Sub(A, B))

\* x == y as Python evaluates it: type(x).__eq__(x, y) first; a raw
\* sequence or number x does not know the geometry classes, its __eq__
\* returns NotImplemented and Python then asks the reflected y.__eq__(x)
PyEq(x, y) ==
    IF x.kind = "obj" THEN Eq(x, y)
    ELSE IF y.kind = "obj" THEN Eq(y, x)
    ELSE x = y

\* x != y: no class here defines __ne__, so it is the negation of ==
PyNe(x, y) == ~PyEq(x, y)

\* A * m: by a number component-wise, by a matrix-like the transform
MulRounding(A, m) ==
    IF IsNum(m) THEN
        IF A.cls \in {"Rect", "IRect"} THEN Obj(A.cls, Round(Broadcast(A, m, RMul)))
        ELSE New(A.cls, Broadcast(A, m, RMul))
    ELSE IF Len(m.v) # 6 THEN Raise("ValueError")
    ELSE New(A.cls, Transform(A.cls, A.v, m.v))
MulLinearPart(A, m) ==
    IF IsNum(m) THEN New(A.cls, Broadcast(A, m, RMul))
    ELSE IF Len(m.v) # 6 THEN Raise("ValueError")
    ELSE New(A.cls, Transform(A.cls, A.v, [m.v EXCEPT ![5] = Zero, ![6] = Zero]))
Mul(A, m) ==
    IF IsNum(m) THEN New(A.cls, Broadcast(A, m, RMul))
    ELSE IF Len(m.v) # 6 THEN Raise("ValueError")
    ELSE New(A.cls, Transform(A.cls, A.v, m.v))

\* A * m1 * m2: Python evaluates the chain from the left
MulChainFromRight(A, m1, m2) == Mul(A, Mul(m1, m2))
MulChain(A, m1, m2) == Mul(Mul(A, m1), m2)

\* A / m: the number or matrix-like must be invertible
DivBySentinel(A, m) ==
    IF IsNum(m) THEN
        IF m.v[1] = Zero THEN New(A.cls, [i \in 1..Len(A.v) |-> Zero])
        ELSE New(A.cls, Broadcast(A, Num(RInv(m.v[1])), RMul))
    ELSE IF Len(m.v) # 6 THEN Raise("ValueError")
    ELSE New(A.cls, Transform(A.cls, A.v, Invert(m).v))
Div(A, m) ==
    IF IsNum(m) THEN
        IF m.v[1] = Zero THEN Raise("ZeroDivisionError")
        ELSE New(A.cls, Broadcast(A, Num(RInv(m.v[1])), RMul))
    ELSE IF Len(m.v) # 6 THEN Raise("ValueError")
    ELSE IF ~Invertible(m.v) THEN Raise("ZeroDivisionError")
    ELSE New(A.cls, Transform(A.cls, A.v, Inverse(m.v)))

\* rect | x: x point-like or rect-like
OrRectLikeOnly(A, x) ==
    IF ~HasLen(x) \/ Len(x.v) # 4 THEN Raise("ValueError")
    ELSE New(A.cls, IncludeRect(A.v, x.v))
Or(A, x) ==
    IF ~HasLen(x) THEN Raise("ValueError")
    ELSE IF Len(x.v) = 2 THEN New(A.cls, IncludePoint(A.v, x.v))
    ELSE IF Len(x.v) = 4 THEN New(A.cls, IncludeRect(A.v, x.v))
    ELSE Raise("ValueError")

\* rect & x: x rect-like
And(A, x) ==
    IF ~HasLen(x) \/ Len(x.v) # 4 THEN Raise("ValueError")
    ELSE New(A.cls, Intersect(A.v, x.v))

\* Quad.rect: the smallest rectangle around the four corners
QuadRect(q) ==
    << Min4(q[1], q[3], q[5], q[7]), Min4(q[2], q[4], q[6], q[8]),
       Max4(q[1], q[3], q[5], q[7]), Max4(q[2], q[4], q[6], q[8]) >>

\* the point p belongs to the rectangle r: the right and the bottom edge
\* are not part of a rectangle
PointInsideClosed(p, r) ==
    RLe(r[1], p[1]) /\ RLe(p[1], r[3]) /\ RLe(r[2], p[2]) /\ RLe(p[2], r[4])
PointInside(p, r) ==
    RLe(r[1], p[1]) /\ RLt(p[1], r[3]) /\ RLe(r[2], p[2]) /\ RLt(p[2], r[4])

\* x0 <= r2.x0 <= r2.x1 <= x1 and y0 <= r2.y0 <= r2.y1 <= y1
RectInside(r2, r) ==
    /\ RLe(r[1], r2[1]) /\ RLe(r2[1], r2[3]) /\ RLe(r2[3], r[3])
    /\ RLe(r[2], r2[2]) /\ RLe(r2[2], r2[4]) /\ RLe(r2[4], r[4])

\* rect.contains(x) and x in rect: x a number, point-like, rect-like or
\* quad-like; of a quad its rectangle is taken
ContainsClosed(A, x) ==
    IF IsNum(x) THEN \E i \in 1..4 : A.v[i] = x.v[1]
    ELSE IF Len(x.v) = 2 THEN PointInsideClosed(x.v, A.v)
    ELSE IF Len(x.v) = 4 THEN RectInside(x.v, A.v)
    ELSE IF Len(x.v) = 8 THEN RectInside(QuadRect(x.v), A.v)
    ELSE FALSE
Contains(A, x) ==
    IF IsNum(x) THEN \E i \in 1..4 : A.v[i] = x.v[1]
    ELSE IF Len(x.v) = 2 THEN PointInside(x.v, A.v)
    ELSE IF Len(x.v) = 4 THEN RectInside(x.v, A.v)
    ELSE IF Len(x.v) = 8 THEN RectInside(QuadRect(x.v), A.v)
    ELSE FALSE

-----------------------------------------------------------------------------
(* The sampled operands of the session.                                    *)

Coord == -MaxC..MaxC

\* the points, numbers and matrices the notebook's cells use
NotebookPoints   == {<<1, 2>>, <<1, 1>>, <<2, 3>>, <<2, 4>>}
NotebookNumbers  == {1, 2}
NotebookMatrices == {<<1, 2, 3, 4, 5, 6>>, <<1, 0, 1, 0, 1, 0>>}

PointVals ==
    {Ints(t) : t \in (Coord \X Coord) \cup NotebookPoints}
RectVals ==
    {Ints(<<x0, y0, x1, y1>>) :
        x0 \in 0..MaxX, y0 \in 0..MaxY, x1 \in 0..MaxX, y1 \in 0..MaxY}
IRectVals == {r \in RectVals : r[2] = Zero /\ r[4] = One}
QuadVals ==
    {Ints(<<x, 0, x + w, 0, x + sk, 1, x + w + sk, 1>>) :
        x \in 0..1, w \in 0..1, sk \in 0..1}
ShiftMatrices == {<<1, 0, 0, 1, 1, -1>>, <<0, 1, -1, 0, 1, 0>>}
MatrixVals ==
    {Ints(<<ma, mb, mc, md, 0, 0>>) :
        ma \in -MaxM..MaxM, mb \in -MaxM..MaxM,
        mc \in -MaxM..MaxM, md \in -MaxM..MaxM}
    \cup {Ints(t) : t \in NotebookMatrices \cup ShiftMatrices}
NumVals == {R(n) : n \in Coord \cup NotebookNumbers}

ValsOf(cls) ==
    CASE cls = "Point"  -> PointVals
      [] cls = "Rect"   -> RectVals
      [] cls = "IRect"  -> IRectVals
      [] cls = "Quad"   -> QuadVals
      [] cls = "Matrix" -> MatrixVals

\* a smaller sample of each class, for the second operand
FewOf(cls) ==
    CASE cls = "Point"  -> PointVals
      [] cls = "Rect"   -> {r \in RectVals : RLe(r[1], One) /\ RLe(r[3], One)}
      [] cls = "IRect"  -> {r \in IRectVals : RLe(r[3], R(2))}
      [] cls = "Quad"   -> QuadVals
      [] cls = "Matrix" -> {m \in MatrixVals : m[2] = Zero /\ m[3] = Zero}
                           \cup {Ints(t) : t \in NotebookMatrices \cup ShiftMatrices}

Objects == UNION {{Obj(cls, v) : v \in ValsOf(cls)} : cls \in Classes}

\* the second operands "like" A: objects of its class and raw sequences
Likes(A) ==
    {Obj(A.cls, v) : v \in FewOf(A.cls) \cup {A.v}}
    \cup {SeqV(v) : v \in FewOf(A.cls) \cup {A.v}}
Numbers    == {Num(r) : r \in NumVals}
MatrixLikes ==
    {Obj("Matrix", m) : m \in MatrixVals}
    \cup {SeqV(Ints(t)) : t \in NotebookMatrices}
\* the matrix-likes a Matrix is multiplied with or divided by
FewMatrixLikes ==
    {Obj("Matrix", m) : m \in FewOf("Matrix")}
    \cup {SeqV(Ints(t)) : t \in NotebookMatrices}
Factors(A) == IF A.cls = "Matrix" THEN FewMatrixLikes ELSE MatrixLikes
PointLikes == {SeqV(p) : p \in PointVals} \cup {Obj("Point", p) : p \in PointVals}
RectLikes  ==
    {SeqV(r) : r \in RectVals} \cup {Obj("Rect", r) : r \in RectVals}
    \cup {INFINITE_RECT}

QuadLikes  == {SeqV(q) : q \in QuadVals} \cup {Obj("Quad", q) : q \in QuadVals}

IsRect(A) == A.cls \in {"Rect", "IRect"}

-----------------------------------------------------------------------------
(* The session: a holds the left operand, every step evaluates one         *)
(* expression on it and keeps the operator, the other operands and the     *)
(* outcome; the next cell starts from the operand alone.                   *)

Init ==
    /\ a \in Objects
    /\ args = <<>>
    /\ op = "new"
    /\ res = None
    /\ folded = {}
    /\ heap = <<>>
    /\ env = <<>>
    /\ doc = None

Step(o, as, r) ==
    /\ op' = o
    /\ args' = as
    /\ res' = r
    /\ UNCHANGED <<a, folded, rest>>

\* a fresh cell: no expression evaluated yet
Fresh == op = "new"

\* a + B
DoAdd ==
    /\ Fresh
    /\ \E B \in Likes(a) \cup Numbers : Step("add", <<B>>, Add(a, B))

\* a - B
DoSub ==
    /\ Fresh
    /\ \E B \in Likes(a) \cup Numbers : Step("sub", <<B>>, Sub(a, B))

\* a == B
DoEq ==
    /\ Fresh
    /\ \E B \in Likes(a) \cup Numbers \cup PointLikes :
           Step("eq", <<B>>, BoolV(PyEq(a, B)))

\* S == a and S != a with the raw sequence S first
DoSeqEq ==
    /\ Fresh
    /\ \E S \in {B \in Likes(a) : B.kind = "seq"} :
           Step("seq_eq", <<S>>, BoolV(PyEq(S, a)))
DoSeqNe ==
    /\ Fresh
    /\ \E S \in {B \in Likes(a) : B.kind = "seq"} :
           Step("seq_ne", <<S>>, BoolV(PyNe(S, a)))

\* a * m
DoMul ==
    /\ Fresh
    /\ IsRect(a) => IsValid(a.v)
    /\ \E m \in Numbers \cup Factors(a) : Step("mul", <<m>>, Mul(a, m))

\* a / m
DoDiv ==
    /\ Fresh
    /\ IsRect(a) => IsValid(a.v)
    /\ \E m \in Numbers \cup Factors(a) : Step("div", <<m>>, Div(a, m))

\* ~a
DoInvert ==
    /\ Fresh
    /\ a.cls = "Matrix"
    /\ Step("invert", <<>>, Invert(a))

\* a * m1 * m2 for a rectangle a and matrices m1, m2
DoMulChain ==
    /\ Fresh
    /\ IsRect(a) /\ IsValid(a.v)
    /\ \E m1 \in {Obj("Matrix", m) : m \in MatrixVals},
          m2 \in {Obj("Matrix", Ints(t)) : t \in NotebookMatrices \cup ShiftMatrices} :
           Step("mulchain", <<m1, m2>>, MulChain(a, m1, m2))

\* a | x
DoOr ==
    /\ Fresh
    /\ IsRect(a)
    /\ \E x \in PointLikes \cup RectLikes : Step("or", <<x>>, Or(a, x))

\* a & x
DoAnd ==
    /\ Fresh
    /\ IsRect(a)
    /\ \E x \in RectLikes : Step("and", <<x>>, And(a, x))

\* the next cell: the last expression's outcome is dropped
NextCell ==
    /\ op # "new"
    /\ op' = "new"
    /\ args' = <<>>
    /\ res' = None
    /\ UNCHANGED <<a, folded, rest>>

Next ==
    \/ NextCell
    \/ DoAdd
    \/ DoSub
    \/ DoEq
    \/ DoSeqEq
    \/ DoSeqNe
    \/ DoMul
    \/ DoDiv
    \/ DoInvert
    \/ DoMulChain
    \/ DoOr
    \/ DoAnd

Spec == Init /\ [][Next]_vars

-----------------------------------------------------------------------------
(* The union fold of the notebook:                                         *)
(*     points = [(i, j) for i in range(5) for j in range(3)]               *)
(*     rect = fitz.EMPTY_RECT()                                            *)
(*     for point in points: rect |= point                                  *)
(* The points are taken in any order, and one point below the grid is      *)
(* added to them.                                                          *)

GridI == 5
GridJ == 3

FoldPoints ==
    {Ints(<<i, j>>) : i \in 0..(GridI - 1), j \in 0..(GridJ - 1)}
    \cup {Ints(<<-MaxC, -MaxC>>)}

InitFold ==
    /\ a = EMPTY_RECT
    /\ args = <<>>
    /\ op = "EMPTY_RECT"
    /\ res = None
    /\ folded = {}
    /\ heap = <<>>
    /\ env = <<>>
    /\ doc = None

\* rect |= point: Rect has no in-place union of its own, Python evaluates
\* rect = rect | point
FoldStep ==
    \E p \in FoldPoints :
        /\ a' = Or(a, SeqV(p))
        /\ folded' = folded \cup {p}
        /\ op' = "ior"
        /\ UNCHANGED <<args, res, rest>>

NextFold == FoldStep

SpecFold == InitFold /\ [][NextFold]_vars

-----------------------------------------------------------------------------
(* Properties of the division and the inversion.                           *)

IsMatrixLike(m) == HasLen(m) /\ Len(m.v) = 6

\* a matrix-like with a * d = b * c, or the number zero
NonInvertible(m) ==
    \/ IsNum(m) /\ m.v[1][1] = 0
    \/ IsMatrixLike(m) /\ RMul(m.v[1], m.v[4]) = RMul(m.v[2], m.v[3])

\* C1: a division O / d by a non-invertible d (a matrix-like with
\* a*d - b*c = 0, or the number zero) never returns a value, it raises
\* ZeroDivisionError, and the step leaves the operand O as it was.
C1_DivisionFails ==
    /\ [](op = "div" /\ NonInvertible(args[1])
            => res = Raise("ZeroDivisionError"))
    /\ [][op' = "div" => a' = a]_vars

\* Point(1, 2) / Matrix(1, 0, 1, 0, 1, 0) has raised ZeroDivisionError
C1_Witness ==
    /\ op = "div"
    /\ a = Obj("Point", Ints(<<1, 2>>))
    /\ args = <<Obj("Matrix", Ints(<<1, 0, 1, 0, 1, 0>>))>>
    /\ res.kind = "error"
    /\ res.err = "ZeroDivisionError"

\* C2: ~m never fails: for a matrix with a*d - b*c = 0 it is the all-zero
\* matrix, for every other matrix it is the inverse, m * ~m == Identity
\* and ~m * m == Identity.
C2_InvertNeverFails ==
    op = "invert" =>
        /\ res.kind = "obj"
        /\ res.cls = "Matrix"
        /\ IF RMul(a.v[1], a.v[4]) = RMul(a.v[2], a.v[3])
           THEN \A i \in 1..6 : res.v[i] = <<0, 1>>
           ELSE /\ PyEq(Mul(a, res), Obj("Matrix", Identity))
                /\ PyEq(Mul(res, a), Obj("Matrix", Identity))

\* ~Matrix(1, 0, 1, 0, 1, 0) is the zero matrix
C2_Witness ==
    /\ op = "invert"
    /\ a = Obj("Matrix", Ints(<<1, 0, 1, 0, 1, 0>>))
    /\ res = Obj("Matrix", Ints(<<0, 0, 0, 0, 0, 0>>))

-----------------------------------------------------------------------------
(* Properties of the equality, the addition and the subtraction.           *)

\* B is an object of A's class or a raw sequence of A's arity
IsLike(A, B) ==
    /\ HasLen(B)
    /\ Len(B.v) = Arity(A.cls)
    /\ B.kind = "obj" => B.cls = A.cls

SameComponents(A, B) == \A i \in 1..Len(A.v) : A.v[i] = B.v[i]

\* == is reflexive, symmetric and transitive on the objects of one class
EqIsEquivalence ==
    \A cls \in Classes :
        LET S == {Obj(cls, v) : v \in FewOf(cls)}
        IN  /\ \A x \in S : PyEq(x, x)
            /\ \A x \in S, y \in S : PyEq(x, y) => PyEq(y, x)
            /\ \A x \in S, y \in S :
                   PyEq(x, y) => \A z \in S : PyEq(y, z) => PyEq(x, z)

\* C3: for an object A and a B that is an object of the same class or a
\* raw sequence of A's arity, A == B holds exactly if every difference
\* A[i] - B[i] is zero; on the objects of one class == is an equivalence.
C3_EqualityIsComponentwise ==
    /\ op = "eq" /\ IsLike(a, args[1])
          => (res = BoolV(TRUE) <=> SameComponents(a, args[1]))
    /\ op = "eq" /\ IsLike(a, args[1])
          => (res = BoolV(FALSE) <=> ~SameComponents(a, args[1]))
    /\ EqIsEquivalence

\* Point(2, 4) == (2, 4) is True
C3_Witness ==
    /\ op = "eq"
    /\ a = Obj("Point", Ints(<<2, 4>>))
    /\ args = <<SeqV(Ints(<<2, 4>>))>>
    /\ res = BoolV(TRUE)

\* C4: with the raw sequence as the first operand the comparison is
\* decided by the sequence's own equality and does not hold: S != A is
\* True and S == A is False even where A == S is True.
C4_SequenceFirstNeverEqual ==
    /\ op = "seq_ne" => res = BoolV(TRUE)
    /\ op = "seq_eq" => res = BoolV(FALSE)

\* the outcome of (2, 4) != Point(2, 4) in the session
C4_NotebookCase ==
    /\ op = "seq_ne"
    /\ a = Obj("Point", Ints(<<2, 4>>))
    /\ args = <<SeqV(Ints(<<2, 4>>))>>
    /\ res = BoolV(FALSE)

\* the i-th component of the second operand B, a number counting for
\* every component
Component(B, i) == IF IsNum(B) THEN B.v[1] ELSE B.v[i]

\* the raw sequence with the components of B, for an object A a number B
\* repeated Arity(A.cls) times
AsSequence(A, B) == SeqV([i \in 1..Arity(A.cls) |-> Component(B, i)])

\* C5: + and - are component-wise; the second operand is an object of the
\* same class, a like-sequence, or a number that counts for every
\* component: A + B == A + (B's components) and A + s == A + (s, ..., s);
\* the result is an object of the first operand's class.
C5_AddSubComponentwise ==
    op \in {"add", "sub"} /\ (IsNum(args[1]) \/ IsLike(a, args[1])) =>
        LET B == args[1]
            F(x, y) == IF op = "add" THEN RAdd(x, y) ELSE RSub(x, y)
            viaSeq == IF op = "add" THEN Add(a, AsSequence(a, B))
                      ELSE Sub(a, AsSequence(a, B))
        IN  /\ res.kind = "obj"
            /\ res.cls = a.cls
            /\ \A i \in 1..Arity(a.cls) : res.v[i] = F(a.v[i], Component(B, i))
            /\ PyEq(res, viaSeq)

\* Point(1, 2) + 1 is Point(2, 3)
C5_Witness ==
    /\ op = "add"
    /\ a = Obj("Point", Ints(<<1, 2>>))
    /\ args = <<Num(R(1))>>
    /\ res = Obj("Point", Ints(<<2, 3>>))

-----------------------------------------------------------------------------
(* Properties of the union and the intersection.                           *)

\* the smallest and the largest i-th coordinate of a non-empty set of points
Least(S, i)    == (CHOOSE p \in S : \A q \in S : RLe(p[i], q[i]))[i]
Greatest(S, i) == (CHOOSE p \in S : \A q \in S : RLe(q[i], p[i]))[i]

BoundingBox(S) == << Least(S, 1), Least(S, 2), Greatest(S, 1), Greatest(S, 2) >>

NotebookGrid == {Ints(<<i, j>>) : i \in 0..4, j \in 0..2}

\* C6: starting from EMPTY_RECT() and folding points with rect |= p, after
\* every step rect is exactly the bounding box (min x, min y, max x, max y)
\* of the points folded so far, in whatever order they came; for the
\* points (i, j), i in 0..4, j in 0..2, it is Rect(0, 0, 4, 2).
C6_FoldIsBoundingBox ==
    /\ folded # {} => a = Obj("Rect", BoundingBox(folded))
    /\ folded = NotebookGrid => a = Obj("Rect", Ints(<<0, 0, 4, 2>>))

\* all points of the notebook's list are folded and rect is Rect(0, 0, 4, 2)
C6_Witness ==
    /\ op = "ior"
    /\ folded = NotebookGrid
    /\ a = Obj("Rect", Ints(<<0, 0, 4, 2>>))

\* the rectangle U covers the point-like or rect-like x, every point of x
\* lies inside U or on its boundary
Covers(U, x) ==
    IF Len(x) = 2
    THEN RLe(U[1], x[1]) /\ RLe(x[1], U[3]) /\ RLe(U[2], x[2]) /\ RLe(x[2], U[4])
    ELSE RLe(U[1], x[1]) /\ RLe(x[3], U[3]) /\ RLe(U[2], x[2]) /\ RLe(x[4], U[4])

\* the rectangles a candidate cover or a candidate common part is taken from
Candidates == RectVals \cup {INFINITE_RECT.v}

SmallestCover(U, r, x) ==
    /\ Covers(U, r)
    /\ Covers(U, x)
    /\ \A C \in Candidates : Covers(C, r) /\ Covers(C, x) => Covers(C, U)

IsPointLike(x) == HasLen(x) /\ Len(x.v) = 2
IsRectLike(x)  == HasLen(x) /\ Len(x.v) = 4

LargestCommon(U, r, x) ==
    /\ Covers(r, U)
    /\ Covers(x, U)
    /\ \A C \in Candidates :
          IsValid(C) /\ Covers(r, C) /\ Covers(x, C) => Covers(U, C)

\* the rectangles r and x have a point in common
Meet(r, x) ==
    /\ RLe(RMax(r[1], x[1]), RMin(r[3], x[3]))
    /\ RLe(RMax(r[2], x[2]), RMin(r[4], x[4]))

-----------------------------------------------------------------------------
(* Properties of the transform of rectangles.                              *)

\* the images of the four corners of the rectangle r under m
CornerImages(r, m) ==
    { TransformXY(r[1], r[2], m), TransformXY(r[3], r[2], m),
      TransformXY(r[1], r[4], m), TransformXY(r[3], r[4], m) }

\* C9: for a valid Rect or IRect r and a matrix m, r * m is again valid,
\* x0 <= x1 and y0 <= y1: it is the axis-parallel bounding box of the
\* images of r's corners.
C9_TransformKeepsValid ==
    op = "mul" /\ IsRect(a) /\ IsValid(a.v) /\ IsMatrixLike(args[1])
    => /\ res.kind = "obj"
       /\ res.cls = a.cls
       /\ IsValid(res.v)
       /\ res.v = BoundingBox(CornerImages(a.v, args[1].v))

\* a quarter turn: the image of the top-left corner of Rect(0, 0, 1, 1) is
\* not the top-left corner of the result
C9_Witness ==
    /\ op = "mul"
    /\ a = Obj("Rect", Ints(<<0, 0, 1, 1>>))
    /\ args = <<Obj("Matrix", Ints(<<0, 1, -1, 0, 0, 0>>))>>
    /\ res = Obj("Rect", Ints(<<-1, 0, 0, 1>>))
    /\ TransformXY(a.v[1], a.v[2], args[1].v) # <<res.v[1], res.v[2]>>

\* some chain of a rectangle and two matrices gives another rectangle when
\* the brackets are set around the matrices
ChainNotAssociative ==
    \E r \in {v \in FewOf("Rect") : IsValid(v)},
       m1 \in FewOf("Matrix") \cup {Ints(<<1, 1, -1, 1, 0, 0>>)},
       m2 \in {Ints(t) : t \in NotebookMatrices \cup ShiftMatrices} :
        Mul(Mul(Obj("Rect", r), Obj("Matrix", m1)), Obj("Matrix", m2))
            # Mul(Obj("Rect", r), Mul(Obj("Matrix", m1), Obj("Matrix", m2)))

\* C10: a chain r * m1 * m2 of a rectangle and two matrices is evaluated
\* from the left, r * m1 * m2 == (r * m1) * m2, and the brackets cannot be
\* moved in general: for some r, m1, m2, (r * m1) * m2 != r * (m1 * m2).
C10_ChainFromLeft ==
    /\ op = "mulchain" =>
          /\ res = Mul(Mul(a, args[1]), args[2])
          /\ PyEq(res, Mul(Mul(a, args[1]), args[2]))
    /\ ChainNotAssociative

\* a chain whose value differs from r * (m1 * m2)
C10_Witness ==
    /\ op = "mulchain"
    /\ ~IsEmpty(a.v)
    /\ res.kind = "obj"
    /\ ~PyEq(res, Mul(a, Mul(args[1], args[2])))

-----------------------------------------------------------------------------
(* Setting brackets: the cells of a session that evaluate the equalities   *)
(* of the notebook's section "Setting Brackets" and of its remarks on the  *)
(* Identity matrix.  a is the first operand, args the other operands, and  *)
(* res the truth value of the equality as Python evaluates it.             *)

Signs == {"+", "-"}

\* A + B or A - B
Signed(s, A, B) == IF s = "+" THEN Add(A, B) ELSE Sub(A, B)

\* x == y == z: Python's chained comparison
PyEq3(x, y, z) == PyEq(x, y) /\ PyEq(y, z)

\* a few operands of each class for the second and third place
TinyOf(cls) ==
    CASE cls = "Point"  -> {Ints(<<1, 2>>), Ints(<<0, 0>>), Ints(<<-MaxC, MaxC>>)}
      [] cls = "Rect"   -> {Ints(<<0, 0, 1, 1>>), Ints(<<1, 0, MaxX, MaxY>>),
                            Ints(<<0, 0, 2, 1>>)}
      [] cls = "IRect"  -> {Ints(<<0, 0, 1, 1>>), Ints(<<1, 0, MaxX, 1>>)}
      [] cls = "Quad"   -> {Ints(<<0, 0, 1, 0, 0, 1, 1, 1>>),
                            Ints(<<1, 0, 2, 0, 2, 1, 3, 1>>)}
      [] cls = "Matrix" -> {Identity, Ints(<<MaxM, 0, -MaxM, 1, 0, 0>>)}
                           \cup {Ints(t) : t \in NotebookMatrices \cup ShiftMatrices}

Tiny(A) == {Obj(A.cls, v) : v \in TinyOf(A.cls)}

\* the numbers of the scalar cells: page.rect / 2 is a product with 1/2
Lambdas == {Num(RNorm(1, 2)), Num(R(2)), Num(R(-MaxC))}

\* a ± b ± c == (a ± b) ± c == a ± (b ± c)
BracketsAdd(s1, s2, A, B, C) ==
    PyEq3(Signed(s2, Signed(s1, A, B), C),
          Signed(s2, Signed(s1, A, B), C),
          Signed(s1, A, Signed(s2, B, C)))
DoBracketsAdd ==
    /\ Fresh
    /\ \E s1 \in Signs, s2 \in Signs, b \in Tiny(a), c \in Tiny(a) :
           Step("a" \o s1 \o "b" \o s2 \o "c", <<b, c>>,
                BoolV(BracketsAdd(s1, s2, a, b, c)))

\* (m1 ± m2) * m3 == m1 * m3 ± m2 * m3
DistRight(s, m1, m2, m3) ==
    PyEq(Mul(Signed(s, m1, m2), m3), Signed(s, Mul(m1, m3), Mul(m2, m3)))
DoDistRight ==
    /\ Fresh
    /\ a.cls = "Matrix"
    /\ \E s \in Signs, m2 \in Tiny(a), m3 \in Tiny(a) :
           Step("(m1" \o s \o "m2)*m3", <<m2, m3>>, BoolV(DistRight(s, a, m2, m3)))

\* m1 * (m2 ± m3) == m1 * m2 ± m1 * m3
DistLeft(s, m1, m2, m3) ==
    PyEq(Mul(m1, Signed(s, m2, m3)), Signed(s, Mul(m1, m2), Mul(m1, m3)))
DoDistLeft ==
    /\ Fresh
    /\ a.cls = "Matrix"
    /\ \E s \in Signs, m2 \in Tiny(a), m3 \in Tiny(a) :
           Step("m1*(m2" \o s \o "m3)", <<m2, m3>>, BoolV(DistLeft(s, a, m2, m3)))

\* (r1 ± r2) * l == r1 * l ± r2 * l
DistNumber(s, r1, r2, l) ==
    PyEq(Mul(Signed(s, r1, r2), l), Signed(s, Mul(r1, l), Mul(r2, l)))
DoDistNumber ==
    /\ Fresh
    /\ IsRect(a)
    /\ \E s \in Signs, r2 \in Tiny(a), l \in Lambdas :
           Step("(r1" \o s \o "r2)*l", <<r2, l>>, BoolV(DistNumber(s, a, r2, l)))

\* r * l1 * l2 == (r * l1) * l2 == r * (l1 * l2)
BracketsNumbers(r, l1, l2) ==
    PyEq3(Mul(Mul(r, l1), l2), Mul(Mul(r, l1), l2),
          Mul(r, Num(RMul(l1.v[1], l2.v[1]))))
DoBracketsNumbers ==
    /\ Fresh
    /\ IsRect(a)
    /\ \E l1 \in Lambdas, l2 \in Lambdas :
           Step("r*l1*l2", <<l1, l2>>, BoolV(BracketsNumbers(a, l1, l2)))

\* (r1 ± r2) * m == r1 * m ± r2 * m, for valid r1, r2 and r1 ± r2
DistMatrix(s, r1, r2, m) ==
    PyEq(Mul(Signed(s, r1, r2), m), Signed(s, Mul(r1, m), Mul(r2, m)))
DoDistMatrix ==
    /\ Fresh
    /\ IsRect(a) /\ IsValid(a.v)
    /\ \E s \in Signs, r2 \in Tiny(a), m \in Tiny(Obj("Matrix", Identity)) :
           /\ IsValid(r2.v) /\ IsValid(Signed(s, a, r2).v)
           /\ Step("(r1" \o s \o "r2)*m", <<r2, m>>, BoolV(DistMatrix(s, a, r2, m)))

\* m * fitz.Identity == fitz.Identity * m == m
Neutral(m) ==
    PyEq3(Mul(m, Obj("Matrix", Identity)), Mul(Obj("Matrix", Identity), m), m)
DoNeutral ==
    /\ Fresh
    /\ a.cls = "Matrix"
    /\ Step("m*Identity", <<>>, BoolV(Neutral(a)))

\* m * n == n * m
Commute(m, n) == PyEq(Mul(m, n), Mul(n, m))
DoCommute ==
    /\ Fresh
    /\ a.cls = "Matrix"
    /\ \E n \in Tiny(a) : Step("m*n", <<n>>, BoolV(Commute(a, n)))

NextBrackets ==
    \/ NextCell
    \/ DoBracketsAdd
    \/ DoDistRight
    \/ DoDistLeft
    \/ DoDistNumber
    \/ DoBracketsNumbers
    \/ DoDistMatrix
    \/ DoNeutral
    \/ DoCommute

SpecBrackets == Init /\ [][NextBrackets]_vars

-----------------------------------------------------------------------------
(* Properties of the matrix ring.                                          *)

RightCells == {"(m1+m2)*m3", "(m1-m2)*m3"}
LeftCells  == {"m1*(m2+m3)", "m1*(m2-m3)"}

\* the sign of the cell's expression: the one the cell's text holds
SignOf(o) ==
    IF o \in {"(m1+m2)*m3", "m1*(m2+m3)", "(r1+r2)*l", "(r1+r2)*m"} THEN "+" ELSE "-"

\* the matrix has no translation: e = f = 0
NoShift(m) == m[5] = Zero /\ m[6] = Zero

C12_DistributesFromLeft ==
    op \in LeftCells =>
        /\ res = BoolV(TRUE)
        /\ Mul(a, Signed(SignOf(op), args[1], args[2])).v
             = Signed(SignOf(op), Mul(a, args[1]), Mul(a, args[2])).v

\* three matrices with translations
C12_Witness ==
    /\ op = "m1*(m2-m3)"
    /\ a.v = Ints(<<1, 2, 3, 4, 5, 6>>)
    /\ args[1].v = Ints(<<0, 1, -1, 0, 1, 0>>)
    /\ args[2].v = Ints(<<1, 0, 0, 1, 1, -1>>)
    /\ res = BoolV(TRUE)

-----------------------------------------------------------------------------
(* Properties of the brackets in sums and differences.                     *)

SumCells == {"a+b+c", "a+b-c", "a-b+c", "a-b-c"}

\* the two signs of a cell a s1 b s2 c
FirstSign(o)  == IF o \in {"a+b+c", "a+b-c"} THEN "+" ELSE "-"
SecondSign(o) == IF o \in {"a+b+c", "a-b+c"} THEN "+" ELSE "-"
Flip(s) == IF s = "+" THEN "-" ELSE "+"

C14_AddAssociative ==
    op = "a+b+c" =>
        /\ res = BoolV(TRUE)
        /\ Add(Add(a, args[1]), args[2]).v = Add(a, Add(args[1], args[2])).v
        /\ Add(Add(a, args[1]), args[2]).cls = a.cls

\* a sum of three different quads, and of three matrices with translations
C14_Witness ==
    /\ op = "a+b+c"
    /\ a.cls \in {"Quad", "Matrix"}
    /\ a.v # args[1].v /\ args[1].v # args[2].v /\ a.v # args[2].v
    /\ Bool(args[2])
    /\ res = BoolV(TRUE)

-----------------------------------------------------------------------------
(* Properties of the products of rectangles with numbers and matrices.     *)

NumberCells == {"(r1+r2)*l", "(r1-r2)*l", "r*l1*l2"}
MatrixCells == {"(r1+r2)*m", "(r1-r2)*m"}

IsInteger(l) == IsNum(l) /\ l.v[1][2] = 1

NotDistributive(s) ==
    \E r1 \in Tiny(Obj("Rect", <<>>)), r2 \in Tiny(Obj("Rect", <<>>)),
       m \in Tiny(Obj("Matrix", <<>>)) :
        /\ IsValid(Signed(s, r1, r2).v)
        /\ ~DistMatrix(s, r1, r2, m)

NotDistributiveSum        == NotDistributive("+")
NotDistributiveDifference == NotDistributive("-")

\* C16: the product of rectangles with a matrix does not distribute over
\* their sum or difference in general: some r1, r2, m have
\* (r1 + r2) * m != r1 * m + r2 * m, and likewise some for the difference.
\* For valid r1, r2 and r1 ± r2 the two sides differ exactly when m has a
\* translation.
C16_MatrixDoesNotDistribute ==
    /\ NotDistributiveSum
    /\ NotDistributiveDifference
    /\ op \in MatrixCells => res = BoolV(NoShift(args[2].v))

\* a sum of two rectangles under a quarter turn with a shift
C16_Witness ==
    /\ op = "(r1+r2)*m"
    /\ args[2].v = Ints(<<0, 1, -1, 0, 1, 0>>)
    /\ ~IsEmpty(a.v) /\ ~IsEmpty(args[1].v)
    /\ res = BoolV(FALSE)

\* some matrices do not commute
NotCommutative ==
    \E m \in Tiny(Obj("Matrix", <<>>)), n \in Tiny(Obj("Matrix", <<>>)) : ~Commute(m, n)

\* C17: Identity = (1, 0, 0, 1, 0, 0) is neutral from both sides, for every
\* matrix m, m * Identity == Identity * m == m; and the product of matrices
\* is not commutative, some m, n have m * n != n * m.
C17_IdentityNeutral ==
    /\ Identity = Ints(<<1, 0, 0, 1, 0, 0>>)
    /\ op = "m*Identity" =>
          /\ res = BoolV(TRUE)
          /\ Mul(a, Obj("Matrix", Identity)) = a
          /\ Mul(Obj("Matrix", Identity), a) = a
    /\ NotCommutative
    /\ op = "m*n" /\ res = BoolV(FALSE) => Mul(a, args[1]).v # Mul(args[1], a).v

\* the notebook's matrix with a translation, times Identity
C17_Witness ==
    /\ op = "m*Identity"
    /\ a.v = Ints(<<1, 2, 3, 4, 5, 6>>)
    /\ res = BoolV(TRUE)

-----------------------------------------------------------------------------
(* Containment: the cells of a session that ask whether a rectangle a      *)
(* contains x, as a.contains(x) or as x in a.                              *)

DoContains ==
    /\ Fresh
    /\ IsRect(a)
    /\ \E x \in PointLikes \cup RectLikes \cup QuadLikes :
           Step("contains", <<x>>, BoolV(Contains(a, x)))

DoIn ==
    /\ Fresh
    /\ IsRect(a)
    /\ \E x \in PointLikes \cup QuadLikes \cup Numbers :
           Step("in", <<x>>, BoolV(Contains(a, x)))

NextContains ==
    \/ NextCell
    \/ DoContains
    \/ DoIn

SpecContains == Init /\ [][NextContains]_vars

IsQuadLike(x) == HasLen(x) /\ Len(x.v) = 8

\* the corners of a rect-like or quad-like x, one point for a point-like
Corners(x) ==
    IF Len(x.v) = 2 THEN {x.v}
    ELSE IF Len(x.v) = 4
    THEN {<<x.v[1], x.v[2]>>, <<x.v[3], x.v[2]>>, <<x.v[1], x.v[4]>>, <<x.v[3], x.v[4]>>}
    ELSE {<<x.v[1], x.v[2]>>, <<x.v[3], x.v[4]>>, <<x.v[5], x.v[6]>>, <<x.v[7], x.v[8]>>}

\* every point of x lies inside U or on its boundary
AllWithin(U, x) == \A p \in Corners(x) : Covers(U, p)

ContainCells == {"contains", "in"}
Geometric == IsPointLike(args[1]) \/ IsRectLike(args[1]) \/ IsQuadLike(args[1])

-----------------------------------------------------------------------------
(* Names and instances: a session with the names x, y, z.  heap holds the  *)
(* instances created so far, env the instance each name is bound to; two   *)
(* names may be bound to the same instance.  A cell evaluates              *)
(*     z = l op r      a binary operator, the result bound to z            *)
(*     l op= r         the in-place form                                   *)
(*     z = ~r          the inversion of a matrix                           *)
(*     l == r, r in l  a comparison or a containment check                 *)
(* An exception leaves names and instances as they are.                    *)

Names == {"x", "y", "z"}
Operators == {"+", "-", "*", "/", "|", "&"}

\* the instance a name is bound to
At(h, e, n) == h[e[n]]

\* A op B for the binary operators of a rectangle A
Apply(o, A, B) ==
    CASE o = "+" -> Add(A, B)
      [] o = "-" -> Sub(A, B)
      [] o = "*" -> Mul(A, B)
      [] o = "/" -> Div(A, B)
      [] o = "|" -> Or(A, B)
      [] o = "&" -> And(A, B)

\* the result v of an operator with the left operand instance l: "the
\* result is always a new object"
PutOverOperand(h, l, v) == [heap |-> [h EXCEPT ![l] = v], id |-> l]
PutNew(h, l, v) == [heap |-> Append(h, v), id |-> Len(h) + 1]

InitNames ==
    /\ a = None
    /\ args = <<>>
    /\ op = "new"
    /\ res = None
    /\ folded = {}
    /\ doc = None
    /\ \E r \in {Ints(<<0, 0, 1, 1>>), Ints(<<1, 0, MaxX, MaxY>>)},
          o \in {Obj("Rect", Ints(<<0, 0, 2, 1>>)), Obj("Point", Ints(<<1, 2>>)),
                 Obj("Matrix", Ints(<<1, 0, 0, 1, 1, -1>>)),
                 Obj("Matrix", Ints(<<1, 0, 1, 0, 1, 0>>)), Num(R(2))},
          k \in 1..2 :
           /\ heap = <<Obj("Rect", r), o>>
           /\ env = [n \in Names |-> IF n = "x" THEN 1 ELSE IF n = "y" THEN 2 ELSE k]

\* the operands a cell may take: a rectangle on the left, valid if it is
\* transformed by a matrix
Operands(o, l, r) ==
    /\ At(heap, env, l).kind = "obj" /\ IsRect(At(heap, env, l))
    /\ o \in {"*", "/"} /\ ~IsNum(At(heap, env, r)) => IsValid(At(heap, env, l).v)
    /\ o \in {"|", "&"} => ~IsNum(At(heap, env, r))

\* names, instances and outcome after the value v of l op r is given to
\* the name n
Bind(o, n, l, r, v) ==
    /\ op' = o
    /\ args' = <<n, l, r>>
    /\ UNCHANGED <<a, folded, doc>>
    /\ IF v.kind = "obj"
       THEN LET put == PutNew(heap, env[l], v)
            IN  /\ heap' = put.heap
                /\ env' = [env EXCEPT ![n] = put.id]
                /\ res' = None
       ELSE /\ res' = v
            /\ UNCHANGED <<heap, env>>

\* z = l op r
DoBinary ==
    /\ Len(heap) < MaxObj
    /\ \E o \in Operators, l \in {"x", "z"}, r \in {"y"} :
           /\ Operands(o, l, r)
           /\ Bind(o, "z", l, r, Apply(o, At(heap, env, l), At(heap, env, r)))

\* l op= r: the classes define no in-place methods, Python evaluates
\* l = l op r
DoInPlace ==
    /\ Len(heap) < MaxObj
    /\ \E o \in Operators, l \in {"x", "z"}, r \in {"y"} :
           /\ Operands(o, l, r)
           /\ Bind(o \o "=", l, l, r, Apply(o, At(heap, env, l), At(heap, env, r)))

\* z = ~y
DoUnary ==
    /\ Len(heap) < MaxObj
    /\ At(heap, env, "y").kind = "obj" /\ At(heap, env, "y").cls = "Matrix"
    /\ Bind("~", "z", "y", "y", Invert(At(heap, env, "y")))

\* l == r and r in l
DoCompare ==
    \E l \in {"x", "z"}, r \in {"y", "z"} :
        /\ At(heap, env, l).kind = "obj" /\ IsRect(At(heap, env, l))
        /\ \/ Bind("==", "none", l, r, BoolV(PyEq(At(heap, env, l), At(heap, env, r))))
           \/ Bind("in", "none", l, r, BoolV(Contains(At(heap, env, l), At(heap, env, r))))

NextNames ==
    \/ DoBinary
    \/ DoInPlace
    \/ DoUnary
    \/ DoCompare

SpecNames == InitNames /\ [][NextNames]_vars

-----------------------------------------------------------------------------
(* Properties of names and instances.                                      *)

InPlaceForms == {o \o "=" : o \in Operators}
PureForms    == Operators \cup {"~", "==", "in"}

\* what one cell does to names and instances
FrameOfCell ==
    LET n == args'[1]
        l == args'[2]
    IN  \* no instance changes, except the receiver of an in-place form
        /\ \A i \in DOMAIN heap :
               /\ i \in DOMAIN heap'
               /\ heap'[i] = heap[i] \/ (op' \in InPlaceForms /\ i = env[l])
        \* an operator's object is a new instance, and only z is bound to it
        /\ op' \in PureForms =>
               /\ \A i \in DOMAIN heap : heap'[i] = heap[i]
               /\ \A m \in Names \ {n} : env'[m] = env[m]
               /\ res' = None => /\ n = "z"
                                 /\ env'[n] \notin DOMAIN heap
                                 /\ \A m \in Names \ {n} : env'[m] # env'[n]
               /\ res' # None => env' = env /\ heap' = heap
        \* an in-place form changes the components seen through its left
        \* operand only
        /\ op' \in InPlaceForms =>
               /\ n = l
               /\ \A m \in Names \ {l} : At(heap', env', m) = At(heap, env, m)
               /\ res' # None => env' = env /\ heap' = heap

\* C19: across any sequence of cells, every operator that is not in-place
\* (+, -, *, /, |, &, ~, ==, in) gives a new object and leaves the
\* components of all its operands unchanged, every in-place form (+=, -=,
\* *=, /=, |=, &=) changes only the components of its left operand, and no
\* cell changes an instance other than the receiver of an in-place form.
C19_OperatorsKeepOperands == [][FrameOfCell]_vars

\* rect |= point with a second name for the rectangle: the name rect sees
\* the union, the other name the rectangle as it was
C19_Witness ==
    /\ op = "|="
    /\ args = <<"x", "x", "y">>
    /\ env["z"] = 1 /\ env["x"] = 3
    /\ heap[3] # heap[1]
    /\ heap[1] = Obj("Rect", Ints(<<0, 0, 1, 1>>))

-----------------------------------------------------------------------------
(* Journalling.  A document is its pages (each the text lines inserted, in *)
(* order), whether journalling is enabled, the name of the operation that  *)
(* is open (none: the empty sequence), the updates made inside it so far,  *)
(* and the journal: the completed operations, each with its name and its   *)
(* updates, and the position in it.                                        *)

OpNames == {"op1", "Line-0"}

NewDoc ==
    [pages |-> <<>>, enabled |-> FALSE, open |-> <<>>, pending |-> <<>>,
     journal |-> <<>>, pos |-> 0]

Update(kind, pno, line) == <<kind, pno, line>>

\* an update may only run without journalling or inside an operation
HaveOperationAlways(d) == TRUE
HaveOperation(d) == ~d.enabled \/ d.open # <<>>

\* an update inside an operation is remembered until the operation stops
Logged(d, u) == IF d.enabled THEN Append(d.pending, u) ELSE d.pending

InitJournal ==
    /\ a = None
    /\ args = <<>>
    /\ op = "open"
    /\ res = None
    /\ folded = {}
    /\ heap = <<>>
    /\ env = <<>>
    /\ doc = NewDoc

Call(o, as, r) ==
    /\ op' = o
    /\ args' = as
    /\ res' = r
    /\ UNCHANGED <<a, folded, heap, env>>

\* doc.journal_enable()
JournalEnable ==
    /\ ~doc.enabled
    /\ doc' = [doc EXCEPT !.enabled = TRUE]
    /\ Call("journal_enable", <<>>, None)

\* doc.journal_start_op(name)
JournalStartOp ==
    /\ doc.enabled
    /\ doc.open = <<>>
    /\ Len(doc.journal) < MaxOps
    /\ \E name \in OpNames :
           /\ doc' = [doc EXCEPT !.open = <<name>>]
           /\ Call("journal_start_op", <<name>>, None)

\* doc.journal_stop_op()
JournalStopOp ==
    /\ doc.enabled
    /\ doc.open # <<>>
    /\ doc.pending # <<>>
    /\ LET done == [name |-> doc.open[1], updates |-> doc.pending]
           kept == SubSeq(doc.journal, 1, doc.pos)
       IN  doc' = [doc EXCEPT !.journal = Append(kept, done),
                              !.pos = doc.pos + 1,
                              !.open = <<>>,
                              !.pending = <<>>]
    /\ Call("journal_stop_op", <<>>, None)

\* page = doc.new_page()
NewPage ==
    IF HaveOperation(doc)
    THEN LET pno == Len(doc.pages) + 1
         IN  /\ pno <= MaxPages
             /\ doc' = [doc EXCEPT
                            !.pages = Append(doc.pages, <<>>),
                            !.pending = Logged(doc, Update("new_page", pno, 0))]
             /\ Call("new_page", <<>>, None)
    ELSE /\ doc' = doc
         /\ Call("new_page", <<>>, Raise("RuntimeError"))

\* page.insert_text((100, 100 + 20*i), "This is line %i." % i)
InsertText ==
    \E pno \in DOMAIN doc.pages :
      LET i == Len(doc.pages[pno])  \* the next line of the page
      IN
        /\ i < MaxLines
        /\ IF HaveOperation(doc)
           THEN /\ doc' = [doc EXCEPT
                               !.pages[pno] = Append(doc.pages[pno], i),
                               !.pending = Logged(doc, Update("insert_text", pno, i))]
                /\ Call("insert_text", <<pno, i>>, None)
           ELSE /\ doc' = doc
                /\ Call("insert_text", <<pno, i>>, Raise("RuntimeError"))

\* doc.journal_position()
JournalPosition ==
    /\ doc.enabled
    /\ doc.open = <<>>
    /\ op # "journal_position"
    /\ doc' = doc
    /\ Call("journal_position", <<>>, SeqV(Ints(<<doc.pos, Len(doc.journal)>>)))

\* the pages with one update taken back: the page or the line it added
RevertNothing(pages, u) == pages
Revert(pages, u) ==
    IF u[1] = "new_page"
    THEN SubSeq(pages, 1, Len(pages) - 1)
    ELSE [pages EXCEPT ![u[2]] = SubSeq(@, 1, Len(@) - 1)]

\* the pages with one update made again
Replay(pages, u) ==
    IF u[1] = "new_page"
    THEN Append(pages, <<>>)
    ELSE [pages EXCEPT ![u[2]] = Append(@, u[3])]

RECURSIVE RevertAll(_, _)
RevertAll(pages, us) ==
    IF us = <<>> THEN pages
    ELSE RevertAll(Revert(pages, us[Len(us)]), SubSeq(us, 1, Len(us) - 1))

RECURSIVE ReplayAll(_, _)
ReplayAll(pages, us) ==
    IF us = <<>> THEN pages
    ELSE ReplayAll(Replay(pages, us[1]), Tail(us))

\* {"undo": ..., "redo": ...}
CanUndo(d) == d.pos > 0
CanRedo(d) == d.pos < Len(d.journal)

\* the document after doc.journal_undo(), after doc.journal_redo()
Undone(d) ==
    [d EXCEPT !.pages = RevertAll(d.pages, d.journal[d.pos].updates),
              !.pos = d.pos - 1]
Redone(d) ==
    [d EXCEPT !.pages = ReplayAll(d.pages, d.journal[d.pos + 1].updates),
              !.pos = d.pos + 1]

\* doc.journal_undo()
JournalUndo ==
    /\ doc.enabled
    /\ doc.open = <<>>
    /\ CanUndo(doc)
    /\ doc' = Undone(doc)
    /\ Call("journal_undo", <<>>, BoolV(TRUE))

\* doc.journal_redo()
JournalRedo ==
    /\ doc.enabled
    /\ doc.open = <<>>
    /\ CanRedo(doc)
    /\ doc' = Redone(doc)
    /\ Call("journal_redo", <<>>, BoolV(TRUE))

\* doc.journal_can_do(): the dictionary as the pair (undo, redo) of 0 and 1
JournalCanDo ==
    /\ doc.enabled
    /\ doc.open = <<>>
    /\ op # "journal_can_do"
    /\ doc' = doc
    /\ Call("journal_can_do", <<>>,
            SeqV(Ints(<<IF CanUndo(doc) THEN 1 ELSE 0,
                        IF CanRedo(doc) THEN 1 ELSE 0>>)))


NextJournal ==
    \/ JournalEnable
    \/ JournalStartOp
    \/ JournalStopOp
    \/ NewPage
    \/ InsertText
    \/ JournalPosition
    \/ JournalUndo
    \/ JournalRedo
    \/ JournalCanDo

SpecJournal == InitJournal /\ [][NextJournal]_vars

-----------------------------------------------------------------------------
(* Properties of journalling.                                              *)

Updates == {"new_page", "insert_text"}

\* what one call does to a document with journalling enabled
JournalledCall ==
    /\ (op' \in Updates /\ doc.enabled /\ doc.open = <<>>) =>
           /\ res' = Raise("RuntimeError")
           /\ doc' = doc
    /\ (op' \in Updates /\ doc.enabled /\ doc.open # <<>>) =>
           /\ res' = None
           /\ doc'.pages # doc.pages
           /\ Len(doc'.pending) = Len(doc.pending) + 1
           /\ doc'.journal = doc.journal
           /\ doc'.open = doc.open
    /\ op' = "journal_stop_op" =>
           /\ doc'.pages = doc.pages
           /\ doc'.pos = doc.pos + 1
           /\ Len(doc'.journal) = doc'.pos
           /\ SubSeq(doc'.journal, 1, doc.pos) = SubSeq(doc.journal, 1, doc.pos)
           /\ doc'.journal[doc'.pos] =
                  [name |-> doc.open[1], updates |-> doc.pending]
           /\ doc.pending # <<>>
           /\ doc'.open = <<>> /\ doc'.pending = <<>>

\* C20: once journalling is enabled, an update (new_page, insert_text) made
\* while no operation is open fails with RuntimeError and leaves document
\* and journal unchanged; made between journal_start_op and journal_stop_op
\* it succeeds, and journal_stop_op logs the updates made since
\* journal_start_op as one operation.
C20_UpdatesNeedOperation == [][JournalledCall]_vars

\* new_page fails outside an operation although the same update was made
\* and logged inside operation "op1" before
C20_Witness ==
    /\ op = "new_page"
    /\ res = Raise("RuntimeError")
    /\ doc.enabled /\ doc.open = <<>>
    /\ Len(doc.pages) = 1
    /\ doc.journal = <<[name |-> "op1",
                        updates |-> <<Update("new_page", 1, 0)>>]>>

-----------------------------------------------------------------------------
(* Properties of undo and redo.                                            *)

\* the number of updates of an operation that added a page, a line to page p
PagesAdded(us) == Cardinality({i \in DOMAIN us : us[i][1] = "new_page"})
LinesAdded(us, p) ==
    Cardinality({i \in DOMAIN us : us[i][1] = "insert_text" /\ us[i][2] = p})

\* less is more without exactly what the updates us added, and nothing else
\* differs
ExactlyWithout(more, less, us) ==
    /\ Len(less) = Len(more) - PagesAdded(us)
    /\ \A p \in DOMAIN less :
           less[p] = SubSeq(more[p], 1, Len(more[p]) - LinesAdded(us, p))

AtEnd(d) == d.enabled /\ d.open = <<>> /\ d.pos = Len(d.journal) /\ d.pos >= 1

UndoRedoCall ==
    \* at position (n, n), n >= 1: undo only, and redo after undo gives the
    \* document back
    /\ AtEnd(doc) =>
           /\ CanUndo(doc) /\ ~CanRedo(doc)
           /\ Undone(doc).pos = doc.pos - 1
           /\ Len(Undone(doc).journal) = Len(doc.journal)
           /\ CanRedo(Undone(doc))
           /\ Redone(Undone(doc)) = doc
    /\ (AtEnd(doc) /\ op' = "journal_can_do") => res' = SeqV(Ints(<<1, 0>>))
    /\ op' = "journal_undo" =>
           /\ doc'.pos = doc.pos - 1
           /\ doc'.journal = doc.journal
           /\ ExactlyWithout(doc.pages, doc'.pages, doc.journal[doc.pos].updates)
           /\ CanRedo(doc')
    /\ op' = "journal_redo" =>
           /\ doc'.pos = doc.pos + 1
           /\ doc'.journal = doc.journal
           /\ ExactlyWithout(doc'.pages, doc.pages, doc.journal[doc'.pos].updates)
    /\ (op = "journal_undo" /\ op' = "journal_redo") =>
           /\ doc'.pages = ReplayAll(doc.pages, doc.journal[doc'.pos].updates)
           /\ AtEnd(doc) = FALSE

\* C21: with n >= 1 completed operations and position (n, n) only undo is
\* possible; journal_undo takes back exactly the updates of the latest
\* applied operation and moves the position to (n-1, n), so that redo is
\* possible; journal_redo after it makes that operation's updates again and
\* gives back the page content and the position (n, n) from before the
\* undo.
C21_UndoThenRedo == [][UndoRedoCall]_vars

\* two lines on the page again after undo and redo of the operation that
\* inserted the second line
C21_Witness ==
    /\ op = "journal_redo"
    /\ doc.pos = 2 /\ Len(doc.journal) = 2
    /\ doc.journal[2].updates = <<Update("insert_text", 1, 1)>>
    /\ doc.pages = <<<<0, 1>>>>

-----------------------------------------------------------------------------
(* The hidden-text detector.  doc is the page: its drawings, as            *)
(* page.get_drawings() gives them, and its text spans, as                  *)
(* page.get_texttrace() gives them.  env holds the names of the script,    *)
(* op its position and res the lines it has printed.                       *)

\* abs(rect): the area, 0 for an empty rectangle
AbsRect(r) ==
    IF IsEmpty(r) \/ IsInfinite(r) THEN Zero
    ELSE RMul(RSub(r[3], r[1]), RSub(r[4], r[2]))

\* rect.width, rect.height
Width(r)  == IF RLt(r[1], r[3]) THEN RSub(r[3], r[1]) ELSE Zero
Height(r) == IF RLt(r[2], r[4]) THEN RSub(r[4], r[2]) ELSE Zero

Drawing(t, r, o) == [type |-> t, rect |-> r, fill_opacity |-> o]

\* drawings a page may hold: a solid square, one with fractional corners, a
\* stroked one, a transparent one, a bar of height 3 and a square elsewhere
DrawingChoices ==
    { Drawing("f",  Ints(<<0, 0, 5, 5>>), One),
      Drawing("fs", <<Zero, Zero, RNorm(9, 2), RNorm(9, 2)>>, One),
      Drawing("s",  Ints(<<0, 0, 5, 5>>), One),
      Drawing("f",  Ints(<<0, 0, 5, 5>>), RNorm(1, 2)),
      Drawing("f",  Ints(<<0, 0, 5, 3>>), One),
      Drawing("f",  Ints(<<10, 10, 15, 15>>), One) }

\* the span's bbox, and bboxes of characters in it
SpanBox == Ints(<<1, 1, 6, 3>>)
CharBoxes ==
    { Ints(<<1, 1, 3, 3>>), Ints(<<4, 1, 5, 3>>), Ints(<<4, 1, 6, 3>>),
      Ints(<<1, 1, 6, 3>>) }

\* the i-th drawing of the page is painted as number 2i
SeqnoOf(i) == 2 * i

NoNames ==
    [seq_paths |-> <<>>, span |-> 0, paths |-> <<>>, path |-> 0, ch |-> 0,
     problems |-> <<>>]

InitHidden ==
    /\ a = None
    /\ args = <<>>
    /\ op = "open"
    /\ res = <<>>
    /\ folded = {}
    /\ heap = <<>>
    /\ env = NoNames
    /\ \E ds \in [1 .. MaxDraw -> DrawingChoices],
          cs \in [1 .. MaxChars -> CharBoxes],
          n \in 1 .. 2 * MaxDraw + 1 :
           doc = [drawings |-> [i \in 1 .. MaxDraw |->
                                   [seqno |-> SeqnoOf(i)] @@ ds[i]],
                  spans |-> << [seqno |-> n, bbox |-> SpanBox,
                                chars |-> [k \in 1 .. MaxChars |->
                                              [c |-> k, bbox |-> cs[k]]]] >>]

\* the condition of the list seq_paths
Significant(p) ==
    /\ RLt(R(3), Width(p.rect))
    /\ RLt(R(3), Height(p.rect))
    /\ p.type \in {"f", "fs"}
    /\ p.fill_opacity = One

\* (p["seqno"], p["rect"].irect)
SeqPath(p) == <<p.seqno, New("IRect", p.rect)>>

\* p[0] >= span_seqno and not (p[1] & span_rect).is_empty
LaterStrict(p, span) == p[1] > span.seqno
Later(p, span) == p[1] >= span.seqno
Overlaps(p, span) == ~IsEmpty(And(p[2], Obj("Rect", span.bbox)).v)

\* abs(bbox & draw_rect) >= abs(bbox) * 0.8
CoversChar(draw_rect, bbox) ==
    RLe(RMul(AbsRect(bbox), RNorm(4, 5)),
        AbsRect(And(Obj("Rect", bbox), draw_rect).v))

Jump(o, e, out) ==
    /\ op' = o
    /\ env' = e
    /\ res' = out
    /\ UNCHANGED <<a, args, folded, heap, doc>>

\* seq_paths = [...]; if seq_paths == []: continue
MakeSeqPaths ==
    /\ op = "open"
    /\ LET sel == SelectSeq(doc.drawings, Significant)
           sp == [i \in DOMAIN sel |-> SeqPath(sel[i])]
       IN  IF sp = <<>> THEN Jump("done", env, res)
           ELSE Jump("spans", [env EXCEPT !.seq_paths = sp, !.span = 1], res)

\* for span in textspans: paths = [...]; if paths == []: continue
SpanPaths ==
    /\ op = "spans"
    /\ env.span <= Len(doc.spans)
    /\ LET span == doc.spans[env.span]
           ps == SelectSeq(env.seq_paths,
                        LAMBDA q : Later(q, span) /\ Overlaps(q, span))
       IN  IF ps = <<>>
           THEN Jump("spans", [env EXCEPT !.span = @ + 1], res)
           ELSE Jump("chars", [env EXCEPT !.paths = ps, !.path = 1,
                                          !.ch = 1, !.problems = <<>>], res)

\* for ch in span["chars"]: if ...: problems.append(char)
CheckChar ==
    /\ op = "chars"
    /\ env.ch <= Len(doc.spans[env.span].chars)
    /\ LET ch == doc.spans[env.span].chars[env.ch]
           draw_rect == env.paths[env.path][2]
       IN  IF CoversChar(draw_rect, ch.bbox)
           THEN Jump("chars", [env EXCEPT !.ch = @ + 1,
                                          !.problems = Append(@, ch.c)], res)
           ELSE Jump("chars", [env EXCEPT !.ch = @ + 1], res)

\* if problems != []: print("Drawing %i covers %s." ...), then the next
\* drawing of paths or the next span
Report ==
    /\ op = "chars"
    /\ env.ch > Len(doc.spans[env.span].chars)
    /\ LET out == IF env.problems # <<>>
                  THEN Append(res, [seqno |-> env.paths[env.path][1],
                                    chars |-> env.problems])
                  ELSE res
       IN  IF env.path < Len(env.paths)
           THEN Jump("chars", [env EXCEPT !.path = @ + 1, !.ch = 1,
                                          !.problems = <<>>], out)
           ELSE Jump("spans", [env EXCEPT !.span = @ + 1], out)

\* the spans of the page are exhausted
Finish ==
    /\ op = "spans"
    /\ env.span > Len(doc.spans)
    /\ Jump("done", env, res)

NextHidden ==
    \/ MakeSeqPaths
    \/ SpanPaths
    \/ CheckChar
    \/ Report
    \/ Finish

SpecHidden == InitHidden /\ [][NextHidden]_vars

-----------------------------------------------------------------------------
(* Properties of the hidden-text detector.                                 *)

\* the area two rectangles share
OverlapArea(r, b) ==
    LET w == RSub(RMin(r[3], b[3]), RMax(r[1], b[1]))
        h == RSub(RMin(r[4], b[4]), RMax(r[2], b[2]))
    IN  IF RLt(Zero, w) /\ RLt(Zero, h) THEN RMul(w, h) ELSE Zero

Area(b) == RMul(RSub(b[3], b[1]), RSub(b[4], b[2]))

\* the part two rectangles share, rounded to integers, is not empty
RoundedOverlap(r, b) ==
    LET i == Round(<< RMax(r[1], b[1]), RMax(r[2], b[2]),
                      RMin(r[3], b[3]), RMin(r[4], b[4]) >>)
    IN  RLt(i[1], i[3]) /\ RLt(i[2], i[4])

\* some printed line says that drawing d covers character k of the span
Reported(d, k) ==
    \E i \in DOMAIN res :
        /\ res[i].seqno = doc.drawings[d].seqno
        /\ \E j \in DOMAIN res[i].chars : res[i].chars[j] = k

SignificantDrawing(p) ==
    /\ p.type \in {"f", "fs"}
    /\ RLt(R(3), RSub(p.rect[3], p.rect[1]))
    /\ RLt(R(3), RSub(p.rect[4], p.rect[2]))
    /\ p.fill_opacity = One

=============================================================================
